---- MODULE Spec2Model ----
(***************************************************************************)
(* A model of hw-tag/code/hmm.py: the HiddenMarkovModel class.             *)
(*                                                                         *)
(* Numbers.  The program computes with float32 tensors, partly in          *)
(* probability space (M_step) and partly in log space (forward_pass,       *)
(* backward_pass, viterbi_tagging).  The model keeps every quantity in     *)
(* probability space: a log-space sum is a product here, logsumexp is a    *)
(* sum, a log-space difference is a quotient, -inf is Zero, and            *)
(* nan / +inf are the values NaN / Inf.  A finite value is                 *)
(* <<n, d, o>> = (n/d) * Eps^o, where Eps stands for the guard 1e-10 the   *)
(* code adds before taking logs (and 1e-20 = Eps^2 is train's smoothing    *)
(* floor).  Sums keep the term of lowest order, which is what float32      *)
(* addition does with 1e-10 next to a value of order 1 (it is absorbed).   *)
(* Rounding error below the code's tolerances is not modelled.             *)
(***************************************************************************)
EXTENDS Integers, Sequences, FiniteSets, TLC

(* ------------------------------ bounds -------------------------------- *)

\* number of tag types, len(tagset): two of them are BOS_TAG and EOS_TAG
K == 4
\* number of ordinary word types, len(vocab) - 2
V == 2
\* longest sentence (number of words between BOS and EOS)
MaxN == 2
\* most E_step calls between two _zero_counts
MaxESteps == 1
\* most calls made on one model, where calls are counted
MaxCalls == 2
\* epochs after which the model stops following train's loop
MaxEpochs == 3

Tags == 0 .. (K - 1)
Words == 0 .. (V - 1)

(* ----------------------------- arithmetic ----------------------------- *)

RECURSIVE GCD(_, _)
GCD(a, b) == IF b = 0 THEN a ELSE GCD(b, a % b)

Zero == <<0, 1, 0>>
One == <<1, 1, 0>>
NaN == <<0, 0, 0>>
Inf == <<1, 0, 0>>
\* 1e-10, the guard of forward_pass and of the unigram M_step
Eps == <<1, 1, 1>>
\* 1e-20, what train puts in place of a zero smoothing constant
Tiny == <<1, 1, 2>>

IsNaN(x) == x[1] = 0 /\ x[2] = 0
IsInf(x) == x[1] # 0 /\ x[2] = 0
IsZero(x) == x[1] = 0 /\ x[2] # 0
\* x > 0 as the code tests it (nan > 0 is False)
IsPos(x) == x[1] > 0

Norm(n, d, o) ==
  IF n = 0 THEN Zero
  ELSE LET g == GCD(n, d) IN <<n \div g, d \div g, o>>

Num(i) == Norm(i, 1, 0)

\* x + y in probability space (torch.logsumexp of two log values)
Add(x, y) ==
  IF IsNaN(x) \/ IsNaN(y) THEN NaN
  ELSE IF IsInf(x) \/ IsInf(y) THEN Inf
  ELSE IF IsZero(x) THEN y
  ELSE IF IsZero(y) THEN x
  ELSE IF x[3] < y[3] THEN x
  ELSE IF y[3] < x[3] THEN y
  ELSE Norm(x[1] * y[2] + y[1] * x[2], x[2] * y[2], x[3])

\* x * y in probability space (the sum of two log values)
Mul(x, y) ==
  IF IsNaN(x) \/ IsNaN(y) THEN NaN
  ELSE IF IsInf(x) \/ IsInf(y)
       THEN (IF IsZero(x) \/ IsZero(y) THEN NaN ELSE Inf)
  ELSE IF IsZero(x) \/ IsZero(y) THEN Zero
  ELSE Norm(x[1] * y[1], x[2] * y[2], x[3] + y[3])

\* x / y in probability space (the difference of two log values)
Div(x, y) ==
  IF IsNaN(x) \/ IsNaN(y) THEN NaN
  ELSE IF IsInf(x) THEN (IF IsInf(y) THEN NaN ELSE Inf)
  ELSE IF IsInf(y) THEN Zero
  ELSE IF IsZero(y) THEN (IF IsZero(x) THEN NaN ELSE Inf)
  ELSE IF IsZero(x) THEN Zero
  ELSE Norm(x[1] * y[2], x[2] * y[1], x[3] - y[3])

\* x < y for values that are not nan
Less(x, y) ==
  IF IsNaN(x) \/ IsNaN(y) THEN FALSE
  ELSE IF IsInf(y) THEN ~IsInf(x)
  ELSE IF IsInf(x) THEN FALSE
  ELSE IF IsZero(y) THEN FALSE
  ELSE IF IsZero(x) THEN TRUE
  ELSE IF x[3] # y[3] THEN x[3] > y[3]
  ELSE x[1] * y[2] < y[1] * x[2]

RECURSIVE SumOver(_, _)
\* the sum of f[i] over the finite set S of integers, smallest index first
SumOver(f, S) ==
  IF S = {} THEN Zero
  ELSE LET i == CHOOSE m \in S : \A j \in S : m <= j
       IN Add(f[i], SumOver(f, S \ {i}))

\* torch.max of the vector f over S: nan if any entry is nan
MaxOver(f, S) ==
  IF \E i \in S : IsNaN(f[i]) THEN NaN
  ELSE LET i == CHOOSE m \in S : \A j \in S : ~Less(f[m], f[j])
       IN f[i]


(* ------------------------------- state -------------------------------- *)

VARIABLES
  bos_t, eos_t,          \* self.bos_t, self.eos_t: tagset.index(BOS_TAG / EOS_TAG)
  unigram,               \* self.unigram
  A, B,                  \* self.A (k x k), self.B (k x V)
  hasCounts,             \* hasattr(self, 'A_counts')
  A_counts, B_counts,    \* self.A_counts, self.B_counts
  hasAlpha,              \* hasattr(self, 'alpha')
  alpha, log_Z,          \* self.alpha, self.log_Z, left behind by forward_pass
  beta,                  \* self.beta, left behind by backward_pass
  call,                  \* the last call made on the model, its arguments and outcome
  nE,                    \* E_step calls since the counts were last zeroed
  nCalls,                \* calls made on the model so far
  pc,                    \* where train is
  tr                     \* train's arguments and local variables

vars == <<bos_t, eos_t, unigram, A, B, hasCounts, A_counts, B_counts,
          hasAlpha, alpha, log_Z, beta, call, nE, nCalls, pc, tr>>

config == <<bos_t, eos_t, unigram>>
params == <<A, B>>
counts == <<hasCounts, A_counts, B_counts>>
tables == <<hasAlpha, alpha, log_Z, beta>>
trainv == <<pc, tr>>

\* python's None for an unknown tag
None == -1

\* the tags other than BOS_TAG and EOS_TAG
valid_tags == Tags \ {bos_t, eos_t}

\* word ids of EOS_WORD and BOS_WORD: the last two types of vocab
EosWord == V
BosWord == V + 1

\* interior positions of a sentence of n words: (word id, tag id or None)
Sentences(n) == [1 .. n -> Words \X (valid_tags \cup {None})]

\* The IntegerizedSentence isent of the code is BOS, these interior positions,
\* EOS: len(isent) = Len(s) + 2, and isent[j] = <<WordAt(s, j), TagAt(s, j)>>.

ZeroMat(Cols) == [r \in Tags |-> [c \in Cols |-> Zero]]

NoCall == [op |-> "init", res |-> "ok", lam |-> Zero, sent |-> <<>>,
           mult |-> 0, ret |-> Zero, tags |-> <<>>]

NoTrain == [lam |-> Zero, tol |-> <<0, 1>>, max_steps |-> 0, corpus |-> <<>>,
            step |-> 0, idx |-> 0, epochs |-> 0, old_dev_loss |-> 0, losses |-> <<>>]

(* ---------------------------- construction ---------------------------- *)

\* the seeds of the random logits
Seeds == {0, 1}

\* exp of a random logit 0.01 * torch.rand(): some positive weight
Weight(seed, r, c) == Num(1 + ((seed * (r + 1) + c) % 2))

\* softmax over the columns of one row of weights, given as a function
Softmax(w, Cols) == [c \in Cols |-> Div(w[c], SumOver(w, Cols))]

init_B(seed) ==
  LET WB == [r \in Tags |-> [c \in Words |-> Weight(seed, r, c)]]
      sm == [r \in Tags |-> Softmax(WB[r], Words)]
  IN [r \in Tags |-> IF r = eos_t \/ r = bos_t THEN [c \in Words |-> Zero]
                     ELSE sm[r]]

init_A(seed) ==
  LET rows == IF unigram THEN {0} ELSE Tags
      \* WA[:, self.bos_t] = -inf
      WA == [r \in rows |-> [c \in Tags |->
               IF c = bos_t THEN Zero ELSE Weight(seed + 1, r, c)]]
      sm == [r \in rows |-> Softmax(WA[r], Tags)]
  IN IF unigram THEN [r \in Tags |-> sm[0]] ELSE sm

\* where tagset.index finds BOS_TAG and EOS_TAG, as <<bos_t, eos_t>>: the
\* corpus reader's order (EOS_TAG, BOS_TAG last), the two swapped, both
\* first, and one at each end
StandardLayout == <<K - 1, K - 2>>
Layouts == {StandardLayout, <<K - 2, K - 1>>, <<0, 1>>, <<K - 1, 0>>}

\* everything but the parameters, as __init__ leaves it
Fresh ==
  /\ hasCounts = FALSE
  /\ A_counts = ZeroMat(Tags)
  /\ B_counts = ZeroMat(Words)
  /\ hasAlpha = FALSE
  /\ alpha = <<>>
  /\ log_Z = Zero
  /\ beta = <<>>
  /\ call = NoCall
  /\ nE = 0
  /\ nCalls = 0
  /\ pc = "idle"
  /\ tr = NoTrain

Init ==
  /\ \E lay \in Layouts : bos_t = lay[1] /\ eos_t = lay[2]
  /\ unigram \in BOOLEAN
  /\ Fresh
  /\ \E seed \in Seeds : A = init_A(seed) /\ B = init_B(seed)

(* --------------------------- _zero_counts ----------------------------- *)

zero_counts ==
  /\ hasCounts' = TRUE
  /\ A_counts' = ZeroMat(Tags)
  /\ B_counts' = ZeroMat(Words)
  /\ nE' = 0
  /\ call' = [NoCall EXCEPT !.op = "_zero_counts"]
  /\ UNCHANGED <<config, params, tables>>

(* ------------------------------ E_step -------------------------------- *)

Mults == {0, 1, 2}

\* the tag at position j of the integerized sentence, j = 0 .. n+1
TagAt(s, j) ==
  IF j = 0 THEN bos_t ELSE IF j = Len(s) + 1 THEN eos_t ELSE s[j][2]
\* the word at position j
WordAt(s, j) ==
  IF j = 0 THEN BosWord ELSE IF j = Len(s) + 1 THEN EosWord ELSE s[j][1]

\* M[r, c] += x
Bump(M, r, c, x) == [M EXCEPT ![r][c] = Add(@, x)]

RECURSIVE ELoopA(_, _, _, _)
\* the loop over positions j .. n: A_counts[prev_tag_id, tag_id] += mult
ELoopA(Ac, s, m, j) ==
  IF j > Len(s) THEN Ac
  ELSE ELoopA(IF TagAt(s, j) # None /\ TagAt(s, j - 1) # None
              THEN Bump(Ac, TagAt(s, j - 1), TagAt(s, j), Num(m))
              ELSE Ac,
              s, m, j + 1)

RECURSIVE ELoopB(_, _, _, _)
\* the loop over positions j .. n: B_counts[tag_id, word_id] += mult
ELoopB(Bc, s, m, j) ==
  IF j > Len(s) THEN Bc
  ELSE ELoopB(IF TagAt(s, j) # None /\ WordAt(s, j) < V
              THEN Bump(Bc, TagAt(s, j), WordAt(s, j), Num(m))
              ELSE Bc,
              s, m, j + 1)

\* an E_step that forgets the transition into EOS
EStepA_NoFinal(Ac, s, m) ==
  ELoopA(IF TagAt(s, 1) # None THEN Bump(Ac, bos_t, TagAt(s, 1), Num(m)) ELSE Ac,
         s, m, 1)

\* A_counts after E_step: the initial transition, the loop, the final transition
EStepA(Ac, s, m) ==
  LET first_tag == TagAt(s, 1)
      last_tag == TagAt(s, Len(s))
      A1 == IF first_tag # None THEN Bump(Ac, bos_t, first_tag, Num(m)) ELSE Ac
      A2 == ELoopA(A1, s, m, 1)
  IN IF last_tag # None THEN Bump(A2, last_tag, eos_t, Num(m)) ELSE A2

EStepB(Bc, s, m) == ELoopB(Bc, s, m, 1)

\* the error E_step raises before it touches the counts, or "ok"
EStepGuard(s, m) ==
  IF m <= 0 THEN "ValueError"
  ELSE IF Len(s) + 2 < 3 THEN "ValueError"
  ELSE "ok"

E_step(s, m) ==
  /\ call' = [NoCall EXCEPT !.op = "E_step", !.sent = s, !.mult = m,
                            !.res = EStepGuard(s, m)]
  /\ IF EStepGuard(s, m) = "ok"
     THEN LET Ac == IF hasCounts THEN A_counts ELSE ZeroMat(Tags)
              Bc == IF hasCounts THEN B_counts ELSE ZeroMat(Words)
          IN /\ hasCounts' = TRUE
             /\ A_counts' = EStepA(Ac, s, m)
             /\ B_counts' = EStepB(Bc, s, m)
             /\ nE' = nE + 1
     ELSE UNCHANGED <<counts, nE>>
  /\ UNCHANGED <<config, params, tables>>

(* ------------------------------ M_step -------------------------------- *)

\* the smoothing constants tried: -1, 0, 1e-20, 1
Lambdas == {<<-1, 1, 0>>, Zero, Tiny, One}

IsNeg(x) == x[1] < 0

RowSum(row, Cols) == SumOver(row, Cols)

\* counts[:self.eos_t, :] += lam
SmoothRows(C, l, Cols) ==
  [r \in Tags |-> [c \in Cols |-> IF r < eos_t THEN Add(C[r][c], l) ELSE C[r][c]]]

\* counts / torch.where(row_sums == 0, 1, row_sums)
NormalizeRows(C, Cols) ==
  [r \in Tags |->
     LET rs == RowSum(C[r], Cols)
         rs1 == IF IsZero(rs) THEN One ELSE rs
     IN [c \in Cols |-> Div(C[r][c], rs1)]]

MStepB(Bc, l) ==
  LET nb == NormalizeRows(SmoothRows(Bc, l, Words), Words)
  IN \* self.B[self.eos_t:, :] = 0
     [r \in Tags |-> IF r >= eos_t THEN [c \in Words |-> Zero] ELSE nb[r]]

MStepA_unigram(Ac, l) ==
  LET row_counts == [c \in Tags |-> Add(SumOver([r \in Tags |-> Ac[r][c]], Tags), l)]
      WA == [c \in Tags |-> IF c = bos_t THEN Zero ELSE Add(row_counts[c], Eps)]
      row == Softmax(WA, Tags)
  IN [r \in Tags |-> row]

MStepA_bigram(Ac, l) ==
  LET na == NormalizeRows(SmoothRows(Ac, l, Tags), Tags)
  IN [r \in Tags |-> [c \in Tags |->
        IF c = bos_t \/ r = eos_t THEN Zero ELSE na[r][c]]]

MStepA(Ac, l) == IF unigram THEN MStepA_unigram(Ac, l) ELSE MStepA_bigram(Ac, l)

\* tensor.any() == 0: no entry is non-zero (nan counts as non-zero)
NoneSet(row, Cols) == \A c \in Cols : IsZero(row[c])

\* the three assertions on the counts at the start of M_step
CountAsserts(Ac, Bc) ==
  /\ \A r \in Tags : IsZero(Ac[r][bos_t])
  /\ NoneSet(Ac[eos_t], Tags)
  /\ \A r \in Tags : (eos_t <= r /\ r < bos_t) => NoneSet(Bc[r], Words)

\* torch.allclose(x, 1, rtol=1e-5) with the default atol=1e-8:
\* |x - 1| <= 1e-8 + 1e-5, that is |n - d| * 10^8 <= 1001 * d
Allclose1(x) ==
  /\ ~IsNaN(x) /\ ~IsInf(x) /\ ~IsZero(x)
  /\ x[3] = 0
  /\ LET diff == IF x[1] >= x[2] THEN x[1] - x[2] ELSE x[2] - x[1]
     IN diff <= (1001 * x[2]) \div 100000000

\* the two assertions at the end of M_step, on rows [:self.eos_t]
RowAsserts(newA, newB) ==
  /\ \A r \in Tags : r < eos_t => Allclose1(RowSum(newA[r], Tags))
  /\ \A r \in Tags : r < eos_t => Allclose1(RowSum(newB[r], Words))

\* the outcome of M_step(l): what it raises or "ok"
MStepResult(l) ==
  IF IsNeg(l) THEN "ValueError"
  ELSE IF ~hasCounts THEN "RuntimeError"
  ELSE IF ~CountAsserts(A_counts, B_counts) THEN "AssertionError"
  ELSE IF ~RowAsserts(MStepA(A_counts, l), MStepB(B_counts, l)) THEN "AssertionError"
  ELSE "ok"

\* M_step without the hasattr guard, zeroing missing counts as E_step does
MStepAssigns_NoAttrGuard(l) ==
  ~IsNeg(l) /\ CountAsserts(A_counts, B_counts)

\* whether M_step(l) gets as far as assigning self.B and self.A
MStepAssigns(l) ==
  ~IsNeg(l) /\ hasCounts /\ CountAsserts(A_counts, B_counts)

M_step(l) ==
  /\ call' = [NoCall EXCEPT !.op = "M_step", !.lam = l, !.res = MStepResult(l)]
  /\ IF MStepAssigns(l)
     THEN /\ B' = MStepB(B_counts, l)
          /\ A' = MStepA(A_counts, l)
     ELSE UNCHANGED params
  /\ UNCHANGED <<config, counts, nE, tables>>

(* ------------------- the life of the parameters ----------------------- *)

\* one more call on the model, made from outside train
Called == nCalls < MaxCalls /\ nCalls' = nCalls + 1 /\ UNCHANGED trainv

\* a caller that zeroes the counts, accumulates and re-estimates in any order
CallZero == Called /\ zero_counts
CallEStep ==
  /\ Called
  /\ nE < MaxESteps
  /\ \E n \in 0 .. MaxN : \E s \in Sentences(n) : \E m \in Mults : E_step(s, m)
CallMStep == Called /\ \E l \in Lambdas : M_step(l)

Next == CallZero \/ CallEStep \/ CallMStep

Spec == Init /\ [][Next]_vars


(* -------------------------- viterbi_tagging --------------------------- *)

\* sentences whose tags are all unknown
Untagged(n) == {s \in Sentences(n) : \A j \in 1 .. n : s[j][2] = None}

\* the smallest of the candidates S whose score no other candidate beats:
\* the loop over s keeps the first s with score > max_score
FirstBest(S, sc) ==
  CHOOSE s \in S :
    /\ \A s2 \in S : ~Less(sc[s], sc[s2])
    /\ \A s2 \in S : (s2 < s) => Less(sc[s2], sc[s])

\* a decoder that scores a predecessor by its transition and emission alone
VitBest_Greedy(prev, t, w) ==
  LET S == {s \in valid_tags : IsPos(A[s][t]) /\ IsPos(B[t][w]) /\ IsPos(prev[s])}
      sc == [s \in S |-> Mul(A[s][t], B[t][w])]
  IN IF S = {} THEN <<Zero, -1>>
     ELSE LET b == FirstBest(S, sc) IN <<Mul(prev[b], sc[b]), b>>

\* <<max_score, best_s>> for tag t at a position whose word is w, given the
\* scores prev of the position before
VitBest(prev, t, w) ==
  LET S == {s \in valid_tags : IsPos(A[s][t]) /\ IsPos(B[t][w]) /\ IsPos(prev[s])}
      sc == [s \in S |-> Mul(Mul(prev[s], A[s][t]), B[t][w])]
  IN IF S = {} THEN <<Zero, -1>>
     ELSE LET b == FirstBest(S, sc) IN <<sc[b], b>>

\* <<max_score, best_s>> of the transition to EOS after the last position
VitBestEos(prev) ==
  LET S == {s \in valid_tags : IsPos(A[s][eos_t]) /\ IsPos(prev[s])}
      sc == [s \in S |-> Mul(prev[s], A[s][eos_t])]
  IN IF S = {} THEN <<Zero, -1>>
     ELSE LET b == FirstBest(S, sc) IN <<sc[b], b>>

\* position 1: <<alpha[1][t], backpointers[1][t]>> for every tag t
VitFirst(w) ==
  [t \in Tags |->
     IF t \in valid_tags /\ IsPos(A[bos_t][t]) /\ IsPos(B[t][w])
     THEN <<Mul(Mul(One, A[bos_t][t]), B[t][w]), bos_t>>
     ELSE <<Zero, -1>>]

\* positions 2 .. n from the column before
VitColumn(col, w) ==
  LET prev == [s \in Tags |-> col[s][1]]
  IN [t \in Tags |-> IF t \in valid_tags THEN VitBest(prev, t, w) ELSE <<Zero, -1>>]

RECURSIVE VitTable(_, _, _)
\* the columns 1 .. n, given the columns 1 .. j-1 in tab
VitTable(s, j, tab) ==
  IF j > Len(s) THEN tab
  ELSE VitTable(s, j + 1,
         Append(tab, IF j = 1 THEN VitFirst(WordAt(s, 1))
                     ELSE VitColumn(tab[j - 1], WordAt(s, j))))

RECURSIVE VitBack(_, _, _, _)
\* backtracking from position j with current_tag: the tags collected, or
\* <<-1>> where a backpointer is -1 (the ValueError)
VitBack(tab, j, current, acc) ==
  IF j = 0 THEN acc
  ELSE LET prev == tab[j][current][2]
       IN IF prev = -1 THEN <<-1>>
          ELSE VitBack(tab, j - 1, prev, <<current>> \o acc)

\* a decoder that guesses the first ordinary tag where it has no path
Viterbi_Guess(s) ==
  [res |-> "ok",
   tags |-> [j \in 1 .. Len(s) |-> CHOOSE t \in valid_tags : \A u \in valid_tags : t <= u]]

\* viterbi_tagging: what it raises or "ok", and the tags it returns
Viterbi(s) ==
  LET n == Len(s)
  IN IF n = 0
     THEN \* isent[1] is EOS, whose word id V is no column of B
          IF \E t \in valid_tags : IsPos(A[bos_t][t])
          THEN [res |-> "IndexError", tags |-> <<>>]
          ELSE [res |-> "ValueError", tags |-> <<>>]
     ELSE LET tab == VitTable(s, 1, <<>>)
              last == VitBestEos([t \in Tags |-> tab[n][t][1]])
              back == IF last[2] = -1 THEN <<-1>>
                      ELSE VitBack(tab, n, last[2], <<>>)
          IN IF back = <<-1>> THEN [res |-> "ValueError", tags |-> <<>>]
             ELSE [res |-> "ok", tags |-> back]

viterbi_tagging(s) ==
  LET r == Viterbi(s)
  IN /\ call' = [NoCall EXCEPT !.op = "viterbi_tagging", !.sent = s,
                               !.res = r.res, !.tags = r.tags]
     /\ UNCHANGED <<config, params, counts, nE, tables, nCalls, trainv>>

\* hand-built parameters: every row of A and of B takes one of these shapes
Shapes == 0 .. 2

\* the weight of column c in a row of shape p: 0, 1 or 2
ShapeWeight(p, c) == Num((p + c) % 3)

\* a row of weights scaled to sum to 1 (left alone if all its weights are 0)
Scaled(w, Cols) ==
  LET t == SumOver(w, Cols)
  IN [c \in Cols |-> IF IsZero(t) THEN Zero ELSE Div(w[c], t)]

\* A with row r of shape pa[r], and the structural zeros
HandA(pa) ==
  [r \in Tags |->
     Scaled([c \in Tags |-> IF c = bos_t \/ r = eos_t THEN Zero
                            ELSE ShapeWeight(pa[r], c)], Tags)]

\* B with row t of shape pb[t], and the structural zeros
HandB(pb) ==
  [t \in Tags |->
     Scaled([w \in Words |-> IF t = bos_t \/ t = eos_t THEN Zero
                             ELSE ShapeWeight(pb[t], w)], Words)]

\* a model whose parameters were set by hand, as a test of the decoder does
InitViterbi ==
  /\ \E lay \in {StandardLayout, <<0, 1>>} : bos_t = lay[1] /\ eos_t = lay[2]
  /\ unigram = FALSE
  /\ Fresh
  /\ \E pa \in [Tags \ {eos_t} -> Shapes] : A = HandA(pa @@ (eos_t :> 0))
  /\ \E pb \in [valid_tags -> Shapes] :
        B = HandB(pb @@ (bos_t :> 0) @@ (eos_t :> 0))

CallViterbi == \E n \in 0 .. MaxN : \E s \in Untagged(n) : viterbi_tagging(s)

NextViterbi == CallViterbi

SpecViterbi == InitViterbi /\ [][NextViterbi]_vars

(* ----------------------- claims about decoding ------------------------ *)

\* all taggings of n words with ordinary tags
Taggings(n) == [1 .. n -> valid_tags]

RECURSIVE PathProb(_, _, _)
\* the product over positions j .. n of A[t_{j-1}, t_j] * B[t_j, w_j]
PathProb(s, tg, j) ==
  IF j > Len(s) THEN One
  ELSE Mul(Mul(A[IF j = 1 THEN bos_t ELSE tg[j - 1]][tg[j]], B[tg[j]][WordAt(s, j)]),
           PathProb(s, tg, j + 1))

\* the joint probability of the words of s and the tagging tg
Joint(s, tg) ==
  Mul(PathProb(s, tg, 1), A[IF Len(s) = 0 THEN bos_t ELSE tg[Len(s)]][eos_t])

HasPath(s) == \E tg \in Taggings(Len(s)) : IsPos(Joint(s, tg))

\* C7: for a sentence of n >= 1 words that some tagging gives a non-zero
\* joint probability, viterbi_tagging returns n ordinary tags whose joint
\* probability is at least that of every other tagging.
C7_ViterbiIsOptimal ==
  (call.op = "viterbi_tagging" /\ Len(call.sent) >= 1 /\ HasPath(call.sent))
  => ( /\ call.res = "ok"
       /\ call.tags \in Taggings(Len(call.sent))
       /\ \A tg \in Taggings(Len(call.sent)) :
             ~Less(Joint(call.sent, call.tags), Joint(call.sent, tg)) )

\* C7's case: a sentence of two or more words, decoded, with a tagging of
\* smaller but non-zero probability
C7_Witness ==
  /\ call.op = "viterbi_tagging"
  /\ call.res = "ok"
  /\ Len(call.sent) >= 2
  /\ \E tg \in Taggings(Len(call.sent)) :
        /\ IsPos(Joint(call.sent, tg))
        /\ Less(Joint(call.sent, tg), Joint(call.sent, call.tags))

\* C8: when no tagging gives the sentence a non-zero joint probability,
\* viterbi_tagging raises an error and leaves A, B and the counts unchanged.
C8_NoPathRaises ==
  [][ (call'.op = "viterbi_tagging" /\ ~HasPath(call'.sent))
      => (call'.res # "ok" /\ UNCHANGED <<params, counts>>) ]_vars

\* C8's case: a sentence of words that no tagging explains, refused
C8_Witness ==
  /\ call.op = "viterbi_tagging"
  /\ Len(call.sent) >= 1
  /\ ~HasPath(call.sent)
  /\ call.res = "ValueError"

(* --------------------- forward_pass and logprob ----------------------- *)

\* torch.log(self.A + 1e-10) and torch.log(self.B + 1e-10), in probability space
GuardedA(r, c) == Add(A[r][c], Eps)
GuardedB(t, w) == Add(B[t][w], Eps)

\* a tensor: the function f held as the table of its values
Tensor(f) == f @@ <<>>

\* alpha[0]: log 1 at BOS_TAG, -inf elsewhere
AlphaZero == [t \in Tags |-> IF t = bos_t THEN One ELSE Zero]

\* alpha_t before scaling: logsumexp over the previous tag, plus the emission
AlphaRaw(prev, w) ==
  Tensor([c \in Tags |->
     Mul(SumOver([r \in Tags |-> IF c = bos_t THEN Zero
                                 ELSE Mul(prev[r], GuardedA(r, c))], Tags),
         GuardedB(c, w))])

RECURSIVE ForwardLoop(_, _, _, _)
\* positions t .. n; al holds alpha[0 .. t-1], sc is exp(log_scale)
ForwardLoop(s, t, al, sc) ==
  IF t > Len(s) THEN [alpha |-> al, scale |-> sc]
  ELSE LET alpha_t == AlphaRaw(al[t], WordAt(s, t))
           max_alpha == MaxOver(alpha_t, Tags)
       IN ForwardLoop(s, t + 1,
                      Append(al, Tensor([c \in Tags |-> Div(alpha_t[c], max_alpha)])),
                      Mul(sc, max_alpha))

\* forward_pass: the table alpha (alpha[j] of the code is alpha[j + 1] here)
\* and exp(log_Z)
Forward(s) ==
  LET f == ForwardLoop(s, 1, <<AlphaZero>>, One)
      last == f.alpha[Len(s) + 1]
  IN [alpha |-> f.alpha,
      log_Z |-> Mul(SumOver([r \in Tags |-> Mul(last[r], GuardedA(r, eos_t))], Tags),
                    f.scale)]

forward_pass(s, name) ==
  \E f \in {Forward(s)} :
     /\ hasAlpha' = TRUE
     /\ alpha' = f.alpha
     /\ log_Z' = f.log_Z
     /\ call' = [NoCall EXCEPT !.op = name, !.sent = s, !.ret = f.log_Z]
     /\ UNCHANGED <<config, params, counts, nE, beta>>

\* logprob integerizes the sentence and returns forward_pass of it
logprob(s) == forward_pass(s, "logprob")

(* --------------------------- backward_pass ---------------------------- *)

\* beta[j-1][s] before scaling, for an ordinary tag s, from beta[j] = bj.
\* At j = n+1 the inner loop looks for t == eos_t among valid_tags, which
\* holds none, so total_prob stays -inf.
BetaCell(s, j, sx, bj) ==
  IF j = Len(s) + 1 THEN Zero
  ELSE LET w == WordAt(s, j)
       IN SumOver([t \in Tags |->
                     IF t \in valid_tags /\ IsPos(A[sx][t]) /\ IsPos(B[t][w])
                     THEN Mul(Mul(A[sx][t], B[t][w]), bj[t])
                     ELSE Zero], Tags)

\* the expected emission counts of position j added to B_counts
AccB(Bc, s, m, j, bj) ==
  LET w == WordAt(s, j)
  IN Tensor([t \in Tags |-> Tensor([x \in Words |->
        IF t \in valid_tags /\ x = w /\ w < V
        THEN Add(Bc[t][x], Mul(Num(m), Div(Mul(alpha[j + 1][t], bj[t]), log_Z)))
        ELSE Bc[t][x]])])

\* expected transition counts taken between all tags, not the ordinary ones
AccA_AllTags(Ac, s, m, j, bj) ==
  LET w == WordAt(s, j)
  IN Tensor([sx \in Tags |-> Tensor([t \in Tags |->
        Add(Ac[sx][t],
            Mul(Num(m), Div(Mul(Mul(Mul(alpha[j][sx], GuardedA(sx, t)), GuardedB(t, w)),
                                bj[t]),
                            log_Z)))])])

\* the expected transition counts into position j added to A_counts
AccA(Ac, s, m, j, bj) ==
  LET w == WordAt(s, j)
  IN Tensor([sx \in Tags |-> Tensor([t \in Tags |->
        IF sx \in valid_tags /\ t \in valid_tags /\ IsPos(A[sx][t]) /\ IsPos(B[t][w])
        THEN Add(Ac[sx][t],
                 Mul(Num(m), Div(Mul(Mul(Mul(alpha[j][sx], A[sx][t]), B[t][w]), bj[t]),
                                 log_Z)))
        ELSE Ac[sx][t]])])

\* the initial transitions BOS -> t added to A_counts
AccBos(Ac, s, m, b1) ==
  LET w == WordAt(s, 1)
  IN Tensor([sx \in Tags |-> Tensor([t \in Tags |->
        IF sx = bos_t /\ t \in valid_tags /\ IsPos(A[bos_t][t]) /\ IsPos(B[t][w])
        THEN Add(Ac[sx][t],
                 Mul(Num(m), Div(Mul(Mul(Mul(alpha[1][bos_t], A[bos_t][t]), B[t][w]), b1[t]),
                                 log_Z)))
        ELSE Ac[sx][t]])])

\* one pass of the loop, at position j; acc says whether the counts are
\* there to be added to
BackIter(s, m, j, st, acc) ==
  LET n == Len(s)
      bj == st.beta[j + 1]
      raw == Tensor([sx \in Tags |-> IF sx \in valid_tags THEN BetaCell(s, j, sx, bj)
                                     ELSE st.beta[j][sx]])
      max_beta == MaxOver(raw, Tags)
  IN [beta |-> [st.beta EXCEPT ![j] =
                  IF j > 1 THEN Tensor([sx \in Tags |-> Div(raw[sx], max_beta)]) ELSE raw],
      scale |-> IF j > 1 THEN Mul(st.scale, max_beta) ELSE st.scale,
      Ac |-> IF acc /\ j < n + 1 THEN AccA(st.Ac, s, m, j, bj) ELSE st.Ac,
      Bc |-> IF acc /\ j < n + 1 THEN AccB(st.Bc, s, m, j, bj) ELSE st.Bc]

RECURSIVE BackLoop(_, _, _, _)
\* for j in range(n + 1, 0, -1), from position j down
BackLoop(s, m, j, st) ==
  IF j = 0 THEN st ELSE BackLoop(s, m, j - 1, BackIter(s, m, j, st, TRUE))

\* self.beta as allocated: beta[-1][eos_t] = 0, -inf elsewhere
\* (beta[j] of the code is beta[j + 1] here)
BetaInit(s) ==
  Tensor([j \in 1 .. Len(s) + 2 |->
     Tensor([t \in Tags |-> IF j = Len(s) + 2 /\ t = eos_t THEN One ELSE Zero])])

\* what backward_pass raises, or "ok"
BackGuard(s) ==
  IF Len(s) = 0
  THEN \* the BOS loop reads B[t, isent[1][0]], and isent[1] is EOS
       IF \E t \in valid_tags : IsPos(A[bos_t][t]) THEN "IndexError" ELSE "ok"
  ELSE IF valid_tags = {} THEN "ok"
  ELSE IF ~hasAlpha THEN "AttributeError"
  ELSE IF Len(alpha) < Len(s) + 1 THEN "IndexError"
  ELSE IF ~hasCounts THEN "AttributeError"
  ELSE "ok"

\* backward_pass run to its end
Backward(s, m) ==
  LET st == BackLoop(s, m, Len(s) + 1,
                     [beta |-> BetaInit(s), scale |-> One,
                      Ac |-> A_counts, Bc |-> B_counts])
  IN [beta |-> st.beta,
      Ac |-> IF Len(s) = 0 THEN st.Ac ELSE AccBos(st.Ac, s, m, st.beta[2]),
      Bc |-> st.Bc,
      ret |-> Mul(st.beta[1][bos_t], st.scale)]

\* self.beta when backward_pass raises: the error comes in the first pass
\* of the loop that adds counts (or, for an empty sentence, after the loop)
BetaAtError(s) ==
  BackIter(s, 1, Len(s) + 1,
           [beta |-> BetaInit(s), scale |-> One, Ac |-> A_counts, Bc |-> B_counts],
           FALSE).beta

backward_pass(s, m) ==
  /\ IF BackGuard(s) = "ok"
     THEN \E b \in {Backward(s, m)} :
             /\ beta' = b.beta
             /\ IF hasCounts
                THEN A_counts' = b.Ac /\ B_counts' = b.Bc
                ELSE UNCHANGED <<A_counts, B_counts>>
             /\ call' = [NoCall EXCEPT !.op = "backward_pass", !.sent = s,
                                       !.mult = m, !.ret = b.ret]
     ELSE /\ beta' = BetaAtError(s)
          /\ UNCHANGED <<A_counts, B_counts>>
          /\ call' = [NoCall EXCEPT !.op = "backward_pass", !.sent = s,
                                    !.mult = m, !.res = BackGuard(s)]
  /\ UNCHANGED <<config, params, hasCounts, nE, hasAlpha, alpha, log_Z>>

(* ------------------------- scoring sentences -------------------------- *)

\* sentences whose tags are all known
FullyTagged(n) == {s \in Sentences(n) : \A j \in 1 .. n : s[j][2] # None}

\* a model before or after the accumulators were first zeroed, with
\* hand-built parameters whose rows run through the shapes, or with the
\* parameters as constructed
InitInfer ==
  /\ bos_t = StandardLayout[1] /\ eos_t = StandardLayout[2]
  /\ unigram = FALSE
  /\ hasCounts \in BOOLEAN
  /\ A_counts = ZeroMat(Tags) /\ B_counts = ZeroMat(Words)
  /\ hasAlpha = FALSE /\ alpha = <<>> /\ log_Z = Zero /\ beta = <<>>
  /\ call = NoCall /\ nE = 0 /\ nCalls = 0 /\ pc = "idle" /\ tr = NoTrain
  /\ \/ \E p \in Shapes :
          /\ A = HandA([r \in Tags |-> (p + r) % 3])
          /\ B = HandB([t \in Tags |-> (p + t) % 3])
     \/ \E seed \in Seeds : A = init_A(seed) /\ B = init_B(seed)

ScoreZero == Called /\ zero_counts
ScoreForward ==
  Called /\ \E n \in 0 .. MaxN : \E s \in Untagged(n) : forward_pass(s, "forward_pass")
ScoreLogprob == Called /\ \E n \in 0 .. MaxN : \E s \in FullyTagged(n) : logprob(s)
ScoreBackward ==
  /\ Called
  /\ \E n \in 0 .. MaxN : \E s \in Untagged(n) : \E m \in Mults \ {0} : backward_pass(s, m)

ScoreEStep == Called /\ \E n \in 0 .. MaxN : \E s \in Sentences(n) : E_step(s, 1)

NextInfer == ScoreZero \/ ScoreForward \/ ScoreLogprob \/ ScoreBackward \/ ScoreEStep

SpecInfer == InitInfer /\ [][NextInfer]_vars

(* ----------------------- claims about scoring ------------------------- *)

\* the tags of a fully tagged sentence
TagsOf(s) == [j \in 1 .. Len(s) |-> s[j][2]]

\* |log x - log y| <= 1e-4, or both -inf
Close(x, y) ==
  IF IsNaN(x) \/ IsNaN(y) \/ IsInf(x) \/ IsInf(y) THEN FALSE
  ELSE IF IsZero(x) \/ IsZero(y) THEN IsZero(x) /\ IsZero(y)
  ELSE /\ x[3] = y[3]
       /\ LET p == x[1] * y[2]
              q == y[1] * x[2]
          IN IF p <= q THEN q - p <= p \div 10000 ELSE p - q <= q \div 10000

\* C6: for a fully tagged sentence, logprob returns the log of the joint
\* probability of the words and exactly the tags the sentence carries.
\* Stated for the taggings of non-zero probability, where the 1e-10 added
\* to A and B is too small to show.
C6_LogprobIsJointOfTagging ==
  ( /\ call.op = "logprob"
    /\ call.sent \in FullyTagged(Len(call.sent))
    /\ IsPos(Joint(call.sent, TagsOf(call.sent))) )
  => Close(call.ret, Joint(call.sent, TagsOf(call.sent)))

\* C10: the log Z that backward_pass returns, called right after
\* forward_pass on the same sentence, is within 1e-4 of the log Z of
\* forward_pass, and so is finite whenever that one is.
C10_BackwardAgreesWithForward ==
  [][ ( /\ call.op = "forward_pass"
        /\ call'.op = "backward_pass"
        /\ call'.sent = call.sent
        /\ call'.res = "ok" )
      => Close(call'.ret, log_Z) ]_vars

(* ------------------------------- train -------------------------------- *)

\* largest max_steps given to train
MaxBudget == 2

\* the j-th ordinary tag, j = 1 ..
NthValid(j) == CHOOSE t \in valid_tags : Cardinality({u \in valid_tags : u < t}) = j - 1

\* a tagged sentence in which every ordinary tag occurs
AllTagsSentence ==
  [j \in 1 .. Cardinality(valid_tags) |-> <<(j - 1) % V, NthValid(j)>>]

\* a tagged sentence of one word
OneWordSentence == <<<<0, NthValid(1)>>>>

\* the training corpora: none, one or two sentences, and one whose only
\* sentence has no words
TrainCorpora ==
  {<<>>, <<AllTagsSentence>>, <<OneWordSentence, AllTagsSentence>>,
   <<OneWordSentence>>, << <<>> >>}

\* the values the loss callable returns
TrainLosses == {0, 1, 2, 4}
\* tolerance as <<numerator, denominator>>: the default 0.001, and 0.5
TrainTols == {<<1, 1000>>, <<1, 2>>}
TrainLambdas == {<<-1, 1, 0>>, Zero, One}

\* an early stop that wants the loss strictly above the threshold
ShouldStop_Strict(dev_loss, old_dev_loss, tol) ==
  dev_loss * tol[2] > old_dev_loss * (tol[2] - tol[1])

\* dev_loss >= old_dev_loss * (1 - tolerance)
ShouldStop(dev_loss, old_dev_loss, tol) ==
  dev_loss * tol[2] >= old_dev_loss * (tol[2] - tol[1])

\* train up to the head of its loop: the check of lam and the first
\* evaluation of the loss
train_begin(corpus, lam, tol, max_steps, l0) ==
  /\ pc = "idle"
  /\ IF IsNeg(lam)
     THEN /\ pc' = "raised"
          /\ tr' = [NoTrain EXCEPT !.lam = lam, !.tol = tol,
                                   !.max_steps = max_steps, !.corpus = corpus]
          /\ call' = [NoCall EXCEPT !.op = "train", !.lam = lam, !.res = "ValueError"]
     ELSE /\ pc' = "while"
          /\ tr' = [lam |-> IF IsZero(lam) THEN Tiny ELSE lam,
                    tol |-> tol, max_steps |-> max_steps, corpus |-> corpus,
                    step |-> 0, idx |-> 0, epochs |-> 0,
                    old_dev_loss |-> l0, losses |-> <<l0>>]
          /\ call' = [NoCall EXCEPT !.op = "train", !.lam = lam]
  /\ UNCHANGED <<config, params, counts, nE, tables, nCalls>>

\* the head of the loop without self._zero_counts(): the counts carry over
train_while_KeepCounts ==
  /\ pc = "while"
  /\ IF tr.step < tr.max_steps
     THEN /\ tr.epochs < MaxEpochs
          /\ pc' = "estep"
          /\ tr' = [tr EXCEPT !.idx = 0, !.epochs = @ + 1]
          /\ UNCHANGED <<config, params, counts, nE, tables, call>>
     ELSE /\ pc' = "save"
          /\ UNCHANGED <<config, params, counts, nE, tables, call, tr>>
  /\ UNCHANGED nCalls

\* while step < max_steps: enter an epoch and zero the counts, or leave
train_while ==
  /\ pc = "while"
  /\ IF tr.step < tr.max_steps
     THEN /\ tr.epochs < MaxEpochs
          /\ zero_counts
          /\ pc' = "estep"
          /\ tr' = [tr EXCEPT !.idx = 0, !.epochs = @ + 1]
     ELSE /\ pc' = "save"
          /\ UNCHANGED <<config, params, counts, nE, tables, call, tr>>
  /\ UNCHANGED nCalls

\* the body of the loop over the corpus: E_step on the next sentence
train_estep ==
  /\ pc = "estep"
  /\ tr.idx < Len(tr.corpus)
  /\ E_step(tr.corpus[tr.idx + 1], 1)
  /\ IF EStepGuard(tr.corpus[tr.idx + 1], 1) = "ok"
     THEN pc' = "estep" /\ tr' = [tr EXCEPT !.idx = @ + 1]
     ELSE pc' = "raised" /\ UNCHANGED tr
  /\ UNCHANGED nCalls

\* self.M_step(lam), once the corpus is exhausted
train_mstep ==
  /\ pc = "estep"
  /\ tr.idx = Len(tr.corpus)
  /\ M_step(tr.lam)
  /\ pc' = IF MStepResult(tr.lam) = "ok" THEN "eval" ELSE "raised"
  /\ UNCHANGED <<tr, nCalls>>

\* dev_loss = loss(self), then the early stop or the next turn of the loop;
\* step is left as it is
train_eval(dev_loss) ==
  /\ pc = "eval"
  /\ IF ShouldStop(dev_loss, tr.old_dev_loss, tr.tol)
     THEN /\ pc' = "save"
          /\ tr' = [tr EXCEPT !.losses = Append(@, dev_loss)]
     ELSE /\ pc' = "while"
          /\ tr' = [tr EXCEPT !.losses = Append(@, dev_loss),
                              !.old_dev_loss = dev_loss]
  /\ UNCHANGED <<config, params, counts, nE, tables, call, nCalls>>

\* if save_path: self.save(save_path), and train returns
train_save ==
  /\ pc = "save"
  /\ pc' = "done"
  /\ UNCHANGED <<config, params, counts, nE, tables, call, nCalls, tr>>

InitTrain ==
  /\ bos_t = StandardLayout[1] /\ eos_t = StandardLayout[2]
  /\ unigram \in BOOLEAN
  /\ Fresh
  /\ \E seed \in Seeds : A = init_A(seed) /\ B = init_B(seed)

TrainBegin ==
  \E corpus \in TrainCorpora, lam \in TrainLambdas, tol \in TrainTols,
     max_steps \in 0 .. MaxBudget, l0 \in TrainLosses :
       train_begin(corpus, lam, tol, max_steps, l0)
TrainEval == \E dev_loss \in TrainLosses : train_eval(dev_loss)

NextTrain ==
  TrainBegin \/ train_while \/ train_estep \/ train_mstep \/ TrainEval \/ train_save

SpecTrain == InitTrain /\ [][NextTrain]_vars

(* ------------------------ claims about train -------------------------- *)

\* C4: train runs at most max_steps epochs, whatever the corpus and the
\* losses, also when every epoch improves the loss by more than the tolerance.
C4_EpochsWithinBudget == tr.epochs <= tr.max_steps

\* L_e >= (1 - tolerance) * L_{e-1}
SmallGain(Le, Lprev, tol) == Le * tol[2] >= Lprev * (tol[2] - tol[1])

\* C5: train stops right after the first epoch e whose loss L_e is at least
\* (1 - tolerance) * L_{e-1}, L_0 being the loss before the first epoch: no
\* E_step or M_step runs after it; and after an epoch whose loss is below
\* that threshold train goes back to the head of its loop.
C5_StopsAtFirstSmallGain ==
  [][ /\ (pc = "eval" /\ pc' # "eval")
         => LET e == Len(tr'.losses)
            IN /\ e = tr.epochs + 1
               /\ IF SmallGain(tr'.losses[e], tr'.losses[e - 1], tr.tol)
                  THEN pc' = "save"
                  ELSE pc' = "while"
      /\ \A e \in 2 .. Len(tr.losses) - 1 :
            ~SmallGain(tr.losses[e], tr.losses[e - 1], tr.tol)
      /\ (pc \in {"save", "done"})
         => /\ pc' \in {"save", "done"}
            /\ tr'.epochs = tr.epochs
            /\ UNCHANGED <<params, counts>> ]_vars

\* C5's case: train has returned after two epochs, the first a gain and
\* the second not
C5_Witness ==
  /\ pc = "done"
  /\ tr.epochs = 2
  /\ Len(tr.losses) = 3
  /\ ~SmallGain(tr.losses[2], tr.losses[1], tr.tol)
  /\ SmallGain(tr.losses[3], tr.losses[2], tr.tol)

\* C12: in every epoch of train each sentence of the corpus goes through
\* forward_pass and then backward_pass, before that epoch's M_step: the
\* step of train that handles a sentence leaves the alpha table and log_Z
\* of that sentence, and a beta table of its length, in the model.
C12_EpochRunsForwardBackward ==
  [][ (pc = "estep" /\ pc' = "estep" /\ tr'.idx = tr.idx + 1)
      => LET s == tr.corpus[tr'.idx]
         IN /\ hasAlpha'
            /\ alpha' = Forward(s).alpha
            /\ log_Z' = Forward(s).log_Z
            /\ Len(beta') = Len(s) + 2 ]_vars

RECURSIVE EpochCounts(_, _)
\* the counts after E_step on the first i sentences of the corpus, from zero
EpochCounts(corpus, i) ==
  IF i = 0 THEN [Ac |-> ZeroMat(Tags), Bc |-> ZeroMat(Words)]
  ELSE LET c == EpochCounts(corpus, i - 1)
       IN [Ac |-> EStepA(c.Ac, corpus[i], 1), Bc |-> EStepB(c.Bc, corpus[i], 1)]

\* C16: in train, every epoch starts with the accumulators zeroed, and M_step
\* runs once in an epoch and only when E_step has handled every sentence of
\* the corpus; at that call A_counts and B_counts are the sum of what this
\* epoch's sentences added, with nothing left of earlier epochs; and A and B
\* stay as they are from the start of the epoch to its M_step.
C16_EpochBarrier ==
  [][ /\ (pc = "while" /\ pc' = "estep")
         => /\ A_counts' = ZeroMat(Tags) /\ B_counts' = ZeroMat(Words)
            /\ UNCHANGED <<A, B>>
      /\ (pc = "estep" /\ call'.op # "M_step") => UNCHANGED <<A, B>>
      /\ (pc = "estep" /\ call'.op = "M_step")
         => /\ tr.idx = Len(tr.corpus)
            /\ A_counts = EpochCounts(tr.corpus, Len(tr.corpus)).Ac
            /\ B_counts = EpochCounts(tr.corpus, Len(tr.corpus)).Bc
            /\ pc' # "estep"
      /\ (pc' = "eval" /\ pc # "eval")
         => pc = "estep" /\ call'.op = "M_step" /\ call'.res = "ok" ]_vars

\* C16's case: the M_step of a second epoch has run on a corpus of two
\* sentences, on the counts of that epoch
C16_Witness ==
  /\ pc = "eval" /\ tr.epochs = 2 /\ Len(tr.corpus) = 2
  /\ call.op = "M_step"
  /\ \E x \in Tags, y \in Tags : ~IsZero(A_counts[x][y])

(* ------------------- one supervised pass by hand ---------------------- *)

\* the fully tagged sentences of one word or more
TaggedSentences == UNION {FullyTagged(n) : n \in 1 .. MaxN}

\* corpora of up to two of them
TaggedCorpora ==
  {<<>>} \cup {<<s>> : s \in TaggedSentences}
         \cup {<<s1, s2>> : s1 \in TaggedSentences, s2 \in TaggedSentences}

\* a caller that does by hand what one epoch does, with lam = 0 given to
\* M_step itself: _zero_counts()
count_begin(corpus) ==
  /\ pc = "idle"
  /\ zero_counts
  /\ pc' = "counting"
  /\ tr' = [NoTrain EXCEPT !.corpus = corpus]
  /\ UNCHANGED nCalls

\* E_step(isent) on the next sentence of the corpus
count_estep ==
  /\ pc = "counting"
  /\ tr.idx < Len(tr.corpus)
  /\ E_step(tr.corpus[tr.idx + 1], 1)
  /\ pc' = "counting"
  /\ tr' = [tr EXCEPT !.idx = @ + 1]
  /\ UNCHANGED nCalls

\* M_step(0) after the last sentence
count_mstep ==
  /\ pc = "counting"
  /\ tr.idx = Len(tr.corpus)
  /\ M_step(Zero)
  /\ pc' = "counted"
  /\ UNCHANGED <<tr, nCalls>>

InitCount ==
  /\ bos_t = StandardLayout[1] /\ eos_t = StandardLayout[2]
  /\ unigram = FALSE
  /\ Fresh
  /\ \E seed \in Seeds : A = init_A(seed) /\ B = init_B(seed)

CountBegin == \E corpus \in TaggedCorpora : count_begin(corpus)

NextCount == CountBegin \/ count_estep \/ count_mstep

SpecCount == InitCount /\ [][NextCount]_vars

\* the places <<i, j>> of a corpus: sentence i, position j = 0 .. n + 1
Places(corpus) ==
  {p \in (1 .. Len(corpus)) \X (0 .. MaxN + 1) : p[2] <= Len(corpus[p[1]]) + 1}

\* how often tag x is followed by tag y, and how often x is followed at all
NTrans(corpus, x, y) ==
  Cardinality({p \in Places(corpus) :
                 /\ p[2] <= Len(corpus[p[1]])
                 /\ TagAt(corpus[p[1]], p[2]) = x
                 /\ TagAt(corpus[p[1]], p[2] + 1) = y})
NOut(corpus, x) ==
  Cardinality({p \in Places(corpus) :
                 p[2] <= Len(corpus[p[1]]) /\ TagAt(corpus[p[1]], p[2]) = x})

\* how often tag x emits word w, and how often x occurs
NEmit(corpus, x, w) ==
  Cardinality({p \in Places(corpus) :
                 TagAt(corpus[p[1]], p[2]) = x /\ WordAt(corpus[p[1]], p[2]) = w})
NOcc(corpus, x) ==
  Cardinality({p \in Places(corpus) : TagAt(corpus[p[1]], p[2]) = x})

\* C11: from zeroed accumulators, E_step on every sentence of a fully tagged
\* corpus and then M_step(0) in bigram mode leave the relative frequencies of
\* the corpus in A (for every tag that occurs, BOS included) and in B (for
\* every ordinary tag that occurs).  Stated for the tag order the corpus
\* reader produces.
C11_RelativeFrequencies ==
  (pc = "counted")
  => ( /\ \A x \in Tags \ {eos_t} : \A y \in Tags :
            NOut(tr.corpus, x) > 0
            => A[x][y] = Norm(NTrans(tr.corpus, x, y), NOut(tr.corpus, x), 0)
       /\ \A x \in valid_tags : \A w \in Words :
            NOcc(tr.corpus, x) > 0
            => B[x][w] = Norm(NEmit(tr.corpus, x, w), NOcc(tr.corpus, x), 0) )

\* C11's case: two sentences counted and re-estimated, and a tag that is
\* followed now by one tag and now by another
C11_Witness ==
  /\ pc = "counted"
  /\ Len(tr.corpus) = 2
  /\ \E x \in valid_tags, y \in valid_tags :
        /\ NTrans(tr.corpus, x, y) > 0
        /\ NTrans(tr.corpus, x, y) < NOut(tr.corpus, x)

(* ----------------------- claims about the counts ---------------------- *)

\* C13: E_step with multiplier mult adds exactly mult to A_counts[x, y] for
\* every pair of adjacent positions j, j+1 (j = 0 .. n, the pairs at BOS and
\* at EOS included) whose tags x, y are both known, and exactly mult to
\* B_counts[x, w] for every interior position with known tag x and word w.
C13_EStepAddsMultPerPair ==
  [][ (call'.op = "E_step" /\ call'.res = "ok")
      => LET s == call'.sent
             mult == call'.mult
             Ac == IF hasCounts THEN A_counts ELSE ZeroMat(Tags)
             Bc == IF hasCounts THEN B_counts ELSE ZeroMat(Words)
         IN /\ \A x \in Tags, y \in Tags :
                 A_counts'[x][y] = Add(Ac[x][y], Num(mult * NTrans(<<s>>, x, y)))
            /\ \A x \in Tags, w \in Words :
                 B_counts'[x][w] = Add(Bc[x][w], Num(mult * NEmit(<<s>>, x, w))) ]_vars

(* --------------------- claims about the parameters -------------------- *)

\* the structural zeros of A_counts and B_counts
CountZeros ==
  /\ \A r \in Tags : IsZero(A_counts[r][bos_t])
  /\ \A c \in Tags : IsZero(A_counts[eos_t][c])
  /\ \A w \in Words : IsZero(B_counts[bos_t][w]) /\ IsZero(B_counts[eos_t][w])

\* C1: in every state of a model, after construction and after every
\* M_step, bigram or unigram, column bos_t of A is exactly 0 and row eos_t
\* of A is exactly 0.
C1_StructuralZerosOfA ==
  /\ \A r \in Tags : IsZero(A[r][bos_t])
  /\ \A c \in Tags : IsZero(A[eos_t][c])

\* C2: when M_step(lam) is called in bigram mode with lam >= 0 on counts that
\* have their structural zeros and a non-zero total in every ordinary row,
\* it returns, and every ordinary row of A sums to 1.  Stated for the tag
\* order the corpus reader produces (EOS_TAG and BOS_TAG last).
C2_BigramRowsSumToOne ==
  ( /\ call.op = "M_step"
    /\ <<bos_t, eos_t>> = StandardLayout
    /\ ~unigram
    /\ ~IsNeg(call.lam)
    /\ hasCounts
    /\ CountZeros
    /\ \A t \in valid_tags : ~IsZero(RowSum(A_counts[t], Tags)) )
  => ( /\ call.res = "ok"
       /\ \A t \in valid_tags : Allclose1(RowSum(A[t], Tags)) )

\* C3: wherever BOS_TAG and EOS_TAG sit in the tagset, after M_step(lam)
\* with lam > 0 has returned, rows bos_t and eos_t of B are identically 0
\* and every other row of B sums to 1.
C3_EmissionRows ==
  (call.op = "M_step" /\ call.res = "ok" /\ IsPos(call.lam))
  => ( /\ \A w \in Words : IsZero(B[bos_t][w]) /\ IsZero(B[eos_t][w])
       /\ \A t \in valid_tags : Allclose1(RowSum(B[t], Words)) )

\* C9: M_step(lam) with lam < 0, and M_step on a model that has no
\* accumulators, raise an error and leave A and B (and the accumulators) as
\* they were before the call.
C9_RejectedMStepChangesNothing ==
  [][ (call'.op = "M_step" /\ (IsNeg(call'.lam) \/ ~hasCounts))
      => ( /\ call'.res \in {"ValueError", "RuntimeError"}
           /\ A' = A /\ B' = B
           /\ UNCHANGED counts ) ]_vars

\* C9's case: a negative lam on a model whose counts would have changed A
C9_Witness ==
  /\ call.op = "M_step"
  /\ IsNeg(call.lam)
  /\ call.res = "ValueError"
  /\ hasCounts
  /\ \E r \in Tags, c \in Tags : ~IsZero(A_counts[r][c])

\* C14: from zeroed accumulators, whatever E_step and forward_pass +
\* backward_pass calls are made on well-formed sentences, column bos_t and
\* row eos_t of A_counts and rows bos_t and eos_t of B_counts stay exactly 0,
\* and the assertions on the counts at the start of M_step hold.
C14_CountsKeepStructuralZeros ==
  CountZeros /\ CountAsserts(A_counts, B_counts)

\* C14's case: backward_pass has run after forward_pass and has added to the
\* counts
C14_Witness ==
  /\ call.op = "backward_pass"
  /\ call.res = "ok"
  /\ Len(call.sent) >= 1
  /\ \E x \in Tags, y \in Tags : ~IsZero(A_counts[x][y])
  /\ \E x \in Tags, w \in Words : ~IsZero(B_counts[x][w])

\* C15: backward_pass(isent) is rejected with an error, and adds nothing to
\* A_counts and B_counts, unless the forward_pass that ran last ran on that
\* same sentence: both when no forward_pass has run on the model and when
\* the call before was a forward_pass on another sentence.
C15_BackwardNeedsItsForward ==
  [][ ( /\ call'.op = "backward_pass"
        /\ \/ ~hasAlpha
           \/ call.op = "forward_pass" /\ call.sent # call'.sent )
      => call'.res # "ok" /\ UNCHANGED <<A_counts, B_counts>> ]_vars

====
